---------------------------- MODULE Spec2Model ----------------------------
(***************************************************************************)
(* usbxbm device firmware: the V-USB setup/write callbacks of main.c       *)
(* (session state machine and frame receiver) driving the display_t       *)
(* callbacks of the Nokia 5110 backend.                                    *)
(*                                                                         *)
(* The firmware is single threaded: main() initialises the display and     *)
(* then polls V-USB, which calls usbFunctionSetup() for every control      *)
(* request and usbFunctionWrite() for every chunk of payload.  Each call   *)
(* is one atomic action of the model.                                      *)
(***************************************************************************)
EXTENDS Integers, Sequences, FiniteSets, TLC

(***************************************************************************)
(* Bounds of the model.                                                    *)
(***************************************************************************)
\* payload byte values are 0..MaxByte
MaxByte == 1
\* wLength of a CMD_DATA request is drawn from 0..MaxLen
MaxLen == 2
\* a chunk handed to usbFunctionWrite carries 0..MaxFrag bytes
MaxFrag == 2
\* payload bytes delivered between two accepted CMD_DATA requests
MaxDelivered == 2
\* usbFunctionWrite calls between two accepted CMD_DATA requests
MaxCalls == 2

(***************************************************************************)
(* Program constants.                                                      *)
(***************************************************************************)
\* number of values of a uint16_t and of a uint8_t
UINT16 == 65536
UINT8 == 256

CMD_HELLO == 85
CMD_PROPS == 16
CMD_DATA == 32
CMD_RESET == 240
CMD_BYE == 170
\* a request code that is none of the CMD_* values
CMD_UNKNOWN ==
    CHOOSE c \in 0..(UINT8 - 1) :
        c \notin {CMD_HELLO, CMD_PROPS, CMD_DATA, CMD_RESET, CMD_BYE}

ST_IDLE == 0
ST_READY == 1

HELLO_VALUE == 19823
HELLO_INDEX == 26913

\* V-USB's "no message, usbFunctionWrite will be called" return value
USB_NO_MSG == 255

VERSION == "1.0"
banner == "RUDY usbxbm " \o VERSION
\* sizeof of a char array initialised from a string literal: the NUL counts
SizeofBanner == Len(banner) + 1

X_RES == 84
Y_RES == 48

\* the properties member of display_t as the Nokia 5110 backend fills it;
\* size holds the width in bytes of each member, in declaration order
display_properties ==
    [res_x |-> X_RES, res_y |-> Y_RES, color_bits |-> 1,
     identifier |-> "Nokia 5110",
     layout |-> << <<"res_x", 2>>, <<"res_y", 2>>, <<"color_bits", 1>>,
                   <<"identifier", 20>> >>]

\* the names of the members of properties
Members == {display_properties.layout[k][1] :
                k \in 1..Len(display_properties.layout)}

RECURSIVE SumSizes(_)
SumSizes(l) == IF l = <<>> THEN 0 ELSE Head(l)[2] + SumSizes(Tail(l))

\* sizeof(display.properties): avr-gcc aligns every member to one byte
SizeofProperties == SumSizes(display_properties.layout)

\* offsetof(properties, k-th member)
OffsetOf(k) == SumSizes(SubSeq(display_properties.layout, 1, k - 1))

\* sizeof(display): four function pointers of two bytes, then properties
SizeofDisplay == 4 * 2 + SizeofProperties

Bytes == 0..MaxByte

VARIABLES
    pc,         \* "boot" before main() ran display.init(), "poll" afterwards
    state,      \* uint8_t state
    recv_len,   \* static uint16_t recv_len
    recv_cnt,   \* static uint16_t recv_cnt
    usbMsgPtr,  \* V-USB's reply pointer: "null", "banner" or "properties"
    display,    \* the properties member of display_t display, which is RAM
    lcd,        \* panel: chip select and data/command pins, write address
    ret,        \* value returned by the last callback
    last,       \* the last callback and its arguments
    calls,      \* display callbacks invoked by the last callback, in order
    session,    \* history: a valid HELLO was accepted and no BYE came since
    declared,   \* history: wLength of the last accepted CMD_DATA, -1 if none
    delivered,  \* history: payload handed to usbFunctionWrite since then
    sent,       \* history: arguments of display.send_byte since then
    dones,      \* history: display.frame_done invocations since then
    frags,      \* history: len of each usbFunctionWrite call since then
    abandoned,  \* history: that CMD_DATA replaced an incomplete transfer
    open,       \* history: frame_start ran, no frame_done and no init since
    twin,       \* the program record of a second run, fed blank payload
    quiet,      \* history: no request came since the accepted CMD_DATA
    offered     \* history: how many bytes the chunks since then held

vars == <<pc, state, recv_len, recv_cnt, usbMsgPtr, display, lcd, ret, last, calls,
          session, declared, delivered, sent, dones, frags, abandoned, open,
          twin, quiet, offered>>

(***************************************************************************)
(* The program state that the callbacks read and write, as one record.     *)
(***************************************************************************)
\* the backend's state at the start of a callback: what is kept of one
\* callback only, the TWI's issued and wire, starts empty
Fresh(l) ==
    IF "issued" \in DOMAIN l THEN [l EXCEPT !.issued = <<>>, !.wire = <<>>]
    ELSE l

Prog == [state |-> state, recv_len |-> recv_len, recv_cnt |-> recv_cnt,
         usbMsgPtr |-> usbMsgPtr, display |-> display, lcd |-> Fresh(lcd),
         calls |-> <<>>, ret |-> 0]

(***************************************************************************)
(* Nokia 5110 backend.  lcd holds the two PORTB pins that frame a write    *)
(* transaction, chip select (cs, active low) and data/command (dc), and    *)
(* what the panel controller keeps of the bytes it was sent: the H bit of  *)
(* its function set and its RAM write address x (column, 0..X_RES - 1)     *)
(* and y (bank of eight rows, 0..Y_RES / 8 - 1).                           *)
(***************************************************************************)
\* number of RAM bytes of a frame: X_RES * (Y_RES / 8)
FrameBytes == X_RES * (Y_RES \div 8)

\* n data bytes with horizontal addressing: the address runs along the
\* columns, then to the next bank, and from the last bank back to the origin
pcd8544_ram_write(l, n) ==
    LET a == (l.y * X_RES + l.x + n) % FrameBytes
    IN  [l EXCEPT !.x = a % X_RES, !.y = a \div X_RES]

\* a command byte, as the comments of nokia5110_init name them: 0x20 | H is
\* the function set, with H = 0 the bytes 0x80 | X and 0x40 | Y set the
\* address, with H = 1 they set Vop and the other extended registers
pcd8544_command(l, data) ==
    IF data \div 8 = 4 THEN [l EXCEPT !.h = data % 2]
    ELSE IF l.h = 0 /\ data >= 128 THEN [l EXCEPT !.x = data - 128]
    ELSE IF l.h = 0 /\ data >= 64 THEN [l EXCEPT !.y = data - 64]
    ELSE l

\* SPDR = data and a busy wait: the pins stay, a selected panel takes the
\* byte as a command or as RAM data, a deselected one ignores it
spi_send_byte(s, data) ==
    IF s.lcd.cs = 1 THEN s
    ELSE IF s.lcd.dc = 0
         THEN [s EXCEPT !.lcd = pcd8544_command(@, data)]
         ELSE [s EXCEPT !.lcd = pcd8544_ram_write(@, 1)]

RECURSIVE spi_send_bytes(_, _)
spi_send_bytes(s, bs) ==
    IF bs = <<>> THEN s
    ELSE spi_send_bytes(spi_send_byte(s, Head(bs)), Tail(bs))

\* lcd_rst_low(); lcd_rst_high(): the controller forgets address and H
nokia5110_reset(s) == [s EXCEPT !.lcd.h = 0, !.lcd.x = 0, !.lcd.y = 0]

\* the splash loop: X_RES * (Y_RES / 8) data bytes from program memory
SplashLoop(s) ==
    IF s.lcd.cs = 0 /\ s.lcd.dc = 1
    THEN [s EXCEPT !.lcd = pcd8544_ram_write(@, FrameBytes)]
    ELSE s

nokia5110_init(s) ==
    LET s1 == nokia5110_reset(s)
        s2 == [s1 EXCEPT !.lcd.cs = 0, !.lcd.dc = 0]
        s3 == spi_send_bytes(s2, <<33, 200, 6, 18, 32, 8, 12, 128, 64>>)
        s4 == SplashLoop([s3 EXCEPT !.lcd.dc = 1])
    IN  [s4 EXCEPT !.lcd.cs = 1]

\* mutant: the frame continues at the address the last one stopped at
nokia5110_frame_start_NoAddress(s) == [s EXCEPT !.lcd.cs = 0, !.lcd.dc = 1]

\* lcd_spi_enable(); lcd_command_mode(); X = 0; Y = 0; lcd_data_mode()
nokia5110_frame_start(s) ==
    LET s1 == [s EXCEPT !.lcd.cs = 0, !.lcd.dc = 0]
        s2 == spi_send_bytes(s1, <<128, 64>>)
    IN  [s2 EXCEPT !.lcd.dc = 1]

\* lcd_spi_disable()
nokia5110_frame_done(s) == [s EXCEPT !.lcd.cs = 1]

(***************************************************************************)
(* The SSD1306 OLED backend and the TWI it talks through.  On this build   *)
(* s.lcd is [fault, master, issued, wire]:                                 *)
(*   fault   the bus condition: a START sent now does not end in TW_START  *)
(*   master  the TWI holds the bus, a START went out and no STOP since     *)
(*   issued  what twi_send_byte was handed in this callback                *)
(*   wire    what has gone out on the bus in this callback                 *)
(* The TWI is taken to end every transmission it is asked for, so the      *)
(* wait loops on TWINT are left.                                           *)
(***************************************************************************)
SSD1306_X_RES == 128
SSD1306_Y_RES == 64
SSD1306_ADDR == 60

\* the properties member of display_t as the SSD1306 backend fills it
ssd1306_properties ==
    [res_x |-> SSD1306_X_RES, res_y |-> SSD1306_Y_RES, color_bits |-> 1,
     identifier |-> "SSD1306 OLED",
     layout |-> display_properties.layout]

\* the status in TWSR once a START was asked for: a START on a bus the TWI
\* already holds is a repeated START
StartStatus(l) ==
    IF l.fault THEN "TW_MT_ARB_LOST"
    ELSE IF l.master THEN "TW_REP_START"
    ELSE "TW_START"

\* TWDR = data; TWCR = (1 << TWINT) | (1 << TWEN); the byte goes out when
\* the TWI holds the bus
twi_send_byte(s, data) ==
    [s EXCEPT !.lcd.issued = Append(@, data),
              !.lcd.wire = IF s.lcd.master THEN Append(@, data) ELSE @]

RECURSIVE twi_send_bytes(_, _)
twi_send_bytes(s, bytes) ==
    IF bytes = <<>> THEN s
    ELSE twi_send_bytes(twi_send_byte(s, Head(bytes)), Tail(bytes))

\* twi_start(): the START condition, then the address for writing; ret is
\* the returned value
twi_start(s) ==
    IF StartStatus(s.lcd) # "TW_START"
    THEN [s EXCEPT !.lcd.master = (StartStatus(s.lcd) = "TW_REP_START"),
                   !.ret = 1]
    ELSE [s EXCEPT !.lcd.master = TRUE,
                   !.lcd.wire = @ \o <<"START", (SSD1306_ADDR * 2) % UINT8>>,
                   !.ret = 0]

\* TWCR = (1 << TWINT) | (1 << TWEN) | (1 << TWSTO)
twi_stop(s) ==
    [s EXCEPT !.lcd.master = FALSE,
              !.lcd.wire = IF s.lcd.master THEN Append(@, "STOP") ELSE @]

init_sequence ==
    <<174, 32, 0, 176, 200, 0, 16, 64, 129, 63, 161, 167, 168,
      SSD1306_Y_RES - 1, 164, 211, 0, 213, 240, 217, 34, 218, 18, 219, 32,
      141, 20, 175>>

\* the loop over ssd1306_gfx_ssd1306_splash: X_RES * (Y_RES / 8) bytes, kept
\* as one entry that tells how many
SsdSplashLoop(s) ==
    twi_send_byte(s, <<"splash", SSD1306_X_RES * (SSD1306_Y_RES \div 8)>>)

\* mutant: the frame start gives up when twi_start returns 1
ssd1306_init_send_Checked(s) ==
    LET s1 == twi_start(s)
        s2 == twi_stop(twi_send_bytes([s1 EXCEPT !.ret = s.ret],
                                      <<0, 176, 33, 0, 127>>))
        s3 == twi_start(s2)
    IN  IF s1.ret = 1 THEN [s1 EXCEPT !.ret = s.ret]
        ELSE IF s3.ret = 1 THEN [s3 EXCEPT !.ret = s.ret]
        ELSE twi_send_byte([s3 EXCEPT !.ret = s.ret], 64)

\* ssd1306_init_send(): the value twi_start returns is not looked at
ssd1306_init_send(s) ==
    LET s1 == [twi_start(s) EXCEPT !.ret = s.ret]
        s2 == twi_stop(twi_send_bytes(s1, <<0, 176, 33, 0, 127>>))
        s3 == [twi_start(s2) EXCEPT !.ret = s.ret]
    IN  twi_send_byte(s3, 64)

\* ssd1306_init(): the value twi_start returns is not looked at
ssd1306_init(s) ==
    LET s1 == [twi_start(s) EXCEPT !.ret = s.ret]
        s2 == twi_stop(twi_send_bytes(twi_send_byte(s1, 0), init_sequence))
        s3 == SsdSplashLoop(ssd1306_init_send(s2))
    IN  twi_stop(s3)

(***************************************************************************)
(* Calls through the function pointers of the display struct.  Each call   *)
(* is recorded in s.calls.  The display struct linked in tells the build.  *)
(***************************************************************************)
IsSsd1306(s) == s.display.identifier = ssd1306_properties.identifier

display_init(s) ==
    [(IF IsSsd1306(s) THEN ssd1306_init(s) ELSE nokia5110_init(s))
       EXCEPT !.calls = Append(@, <<"init">>)]

display_frame_start(s) ==
    [(IF IsSsd1306(s) THEN ssd1306_init_send(s) ELSE nokia5110_frame_start(s))
       EXCEPT !.calls = Append(@, <<"frame_start">>)]

display_send_byte(s, b) ==
    [(IF IsSsd1306(s) THEN twi_send_byte(s, b) ELSE spi_send_byte(s, b))
       EXCEPT !.calls = Append(@, <<"send_byte", b>>)]

display_frame_done(s) ==
    [(IF IsSsd1306(s) THEN twi_stop(s) ELSE nokia5110_frame_done(s))
       EXCEPT !.calls = Append(@, <<"frame_done">>)]

(***************************************************************************)
(* usbFunctionSetup: one operator per case of the switch.  Each returns    *)
(* the program record after the case, ret being the returned value.        *)
(***************************************************************************)
\* mutant: the magic pair compared the wrong way round
HelloMatches_Swapped(rq) == rq.wValue = HELLO_INDEX /\ rq.wIndex = HELLO_VALUE

\* mutant: only wValue is compared
HelloMatches_OnlyValue(rq) == rq.wValue = HELLO_VALUE

HelloMatches(rq) == rq.wValue = HELLO_VALUE /\ rq.wIndex = HELLO_INDEX

\* mutant: a HELLO in ST_READY does not re-initialise the display
CaseHello_NoReinit(rq, s) ==
    IF HelloMatches(rq)
    THEN [s EXCEPT !.state = ST_READY, !.usbMsgPtr = "banner",
                   !.ret = SizeofBanner]
    ELSE [s EXCEPT !.ret = 0]

\* mutant: an accepted HELLO also forgets the transfer in flight
CaseHello_ResetsProgress(rq, s) ==
    IF HelloMatches(rq)
    THEN LET s1 == IF s.state # ST_IDLE THEN display_init(s) ELSE s
         IN  [s1 EXCEPT !.state = ST_READY, !.usbMsgPtr = "banner",
                        !.recv_cnt = 0, !.recv_len = 0,
                        !.ret = SizeofBanner]
    ELSE [s EXCEPT !.ret = 0]

CaseHello(rq, s) ==
    IF HelloMatches(rq)
    THEN LET s1 == IF s.state # ST_IDLE THEN display_init(s) ELSE s
         IN  [s1 EXCEPT !.state = ST_READY, !.usbMsgPtr = "banner",
                        !.ret = SizeofBanner]
    ELSE [s EXCEPT !.ret = 0]

\* mutant: the reply is the whole display struct, function pointers first
CaseProps_WholeStruct(rq, s) ==
    IF s.state = ST_READY
    THEN [s EXCEPT !.usbMsgPtr = "display", !.ret = SizeofDisplay]
    ELSE [s EXCEPT !.ret = 0]

CaseProps(rq, s) ==
    IF s.state = ST_READY
    THEN [s EXCEPT !.usbMsgPtr = "properties", !.ret = SizeofProperties]
    ELSE [s EXCEPT !.ret = 0]

\* mutant: recv_cnt keeps the count of the previous transfer
CaseData_NoCountReset(rq, s) ==
    IF s.state = ST_READY
    THEN LET s1 == [s EXCEPT !.recv_len = rq.wLength]
         IN  [display_frame_start(s1) EXCEPT !.ret = USB_NO_MSG]
    ELSE [s EXCEPT !.ret = 0]

\* mutant: CMD_DATA is served in every state
CaseData_NoStateCheck(rq, s) ==
    LET s1 == [s EXCEPT !.recv_cnt = 0, !.recv_len = rq.wLength]
    IN  [display_frame_start(s1) EXCEPT !.ret = USB_NO_MSG]

\* mutant: an incomplete transfer is closed with frame_done first
CaseData_ClosesAbandoned(rq, s) ==
    IF s.state = ST_READY
    THEN LET s0 == IF s.recv_cnt < s.recv_len THEN display_frame_done(s) ELSE s
             s1 == [s0 EXCEPT !.recv_cnt = 0, !.recv_len = rq.wLength]
         IN  [display_frame_start(s1) EXCEPT !.ret = USB_NO_MSG]
    ELSE [s EXCEPT !.ret = 0]

CaseData(rq, s) ==
    IF s.state = ST_READY
    THEN LET s1 == [s EXCEPT !.recv_cnt = 0, !.recv_len = rq.wLength]
         IN  [display_frame_start(s1) EXCEPT !.ret = USB_NO_MSG]
    ELSE [s EXCEPT !.ret = 0]

\* mutant: CMD_RESET is served in every state
CaseReset_NoStateCheck(rq, s) == [display_init(s) EXCEPT !.ret = 0]

\* mutant: CMD_RESET also ends the session
CaseReset_ToIdle(rq, s) ==
    IF s.state = ST_READY
    THEN [display_init(s) EXCEPT !.state = ST_IDLE, !.ret = 0]
    ELSE [s EXCEPT !.ret = 0]

CaseReset(rq, s) ==
    IF s.state = ST_READY
    THEN [display_init(s) EXCEPT !.ret = 0]
    ELSE [s EXCEPT !.ret = 0]

\* mutant: BYE forgets to leave ST_READY
CaseBye_KeepsState(rq, s) == [s EXCEPT !.ret = 0]

\* mutant: BYE puts the splash screen back
CaseBye_Reinit(rq, s) == [display_init(s) EXCEPT !.state = ST_IDLE, !.ret = 0]

CaseBye(rq, s) == [s EXCEPT !.state = ST_IDLE, !.ret = 0]

\* mutant: a request that matches no case ends the session
SetupResult_DefaultBye(rq, s) ==
    CASE rq.bRequest = CMD_HELLO -> CaseHello(rq, s)
      [] rq.bRequest = CMD_PROPS -> CaseProps(rq, s)
      [] rq.bRequest = CMD_DATA  -> CaseData(rq, s)
      [] rq.bRequest = CMD_RESET -> CaseReset(rq, s)
      [] OTHER -> CaseBye(rq, s)

\* mutant: a request that matches no case is answered with a status byte
SetupResult_ErrorCode(rq, s) ==
    CASE rq.bRequest = CMD_HELLO -> CaseHello(rq, s)
      [] rq.bRequest = CMD_PROPS -> CaseProps(rq, s)
      [] rq.bRequest = CMD_DATA  -> CaseData(rq, s)
      [] rq.bRequest = CMD_RESET -> CaseReset(rq, s)
      [] rq.bRequest = CMD_BYE   -> CaseBye(rq, s)
      [] OTHER -> [s EXCEPT !.ret = 1]

SetupResult(rq, s) ==
    CASE rq.bRequest = CMD_HELLO -> CaseHello(rq, s)
      [] rq.bRequest = CMD_PROPS -> CaseProps(rq, s)
      [] rq.bRequest = CMD_DATA  -> CaseData(rq, s)
      [] rq.bRequest = CMD_RESET -> CaseReset(rq, s)
      [] rq.bRequest = CMD_BYE   -> CaseBye(rq, s)
      [] OTHER -> [s EXCEPT !.ret = 0]

(***************************************************************************)
(* usbFunctionWrite.                                                       *)
(***************************************************************************)
\* for (i = 0; recv_cnt < recv_len && i < len; i++, recv_cnt++)
\*     display.send_byte(data[i]);
\* with i a uint8_t and recv_cnt a uint16_t; data[i] is data[i + 1] here
\* mutant: the loop no longer stops at recv_len
LoopTest_NoLenGuard(i, s, len) == i < len

\* mutant: recv_cnt <= recv_len in the loop condition
LoopTest_OffByOne(i, s, len) == s.recv_cnt <= s.recv_len /\ i < len

\* the loop condition: recv_cnt < recv_len && i < len
LoopTest(i, s, len) == s.recv_cnt < s.recv_len /\ i < len

\* mutant: data[0] is sent in every round of the loop
LoopBody_FirstByte(i, s, data) ==
    [display_send_byte(s, data[1]) EXCEPT !.recv_cnt = (@ + 1) % UINT16]

\* mutant: recv_cnt is as narrow as the loop index
LoopBody_Count8(i, s, data) ==
    [display_send_byte(s, data[i + 1]) EXCEPT !.recv_cnt = (@ + 1) % UINT8]

\* mutant: a byte of value 0 is forwarded but not counted
LoopBody_SkipsNul(i, s, data) ==
    [display_send_byte(s, data[i + 1])
       EXCEPT !.recv_cnt = IF data[i + 1] = 0 THEN @ ELSE (@ + 1) % UINT16]

\* the loop body and the recv_cnt++ of the loop's third expression
LoopBody(i, s, data) ==
    [display_send_byte(s, data[i + 1]) EXCEPT !.recv_cnt = (@ + 1) % UINT16]

\* one round of the loop from ls = [i, s]: the condition, the body, the two
\* increments.  Once the condition fails the loop is over, and a further
\* round leaves ls as it is.
LoopPass(ls, data, len) ==
    IF LoopTest(ls.i, ls.s, len)
    THEN [i |-> (ls.i + 1) % UINT8, s |-> LoopBody(ls.i, ls.s, data)]
    ELSE ls

\* the loop, four rounds for each level of the recursion
RECURSIVE ForLoop(_, _, _, _)
ForLoop(i, s, data, len) ==
    IF LoopTest(i, s, len)
    THEN LET p1 == LoopPass([i |-> i, s |-> s], data, len)
             p2 == LoopPass(p1, data, len)
             p3 == LoopPass(p2, data, len)
             p4 == LoopPass(p3, data, len)
         IN  ForLoop(p4.i, p4.s, data, len)
    ELSE s

\* mutant: frame_done is called after every chunk
FrameDoneCheck_Always(s) == display_frame_done(s)

\* if (recv_cnt == recv_len) display.frame_done();
FrameDoneCheck(s) ==
    IF s.recv_cnt = s.recv_len THEN display_frame_done(s) ELSE s

\* mutant: the return value as the comment above the function words it
WriteReturn_Inverted(s) == IF s.recv_cnt = s.recv_len THEN 0 ELSE 1

\* return (recv_cnt == recv_len);
WriteReturn(s) == IF s.recv_cnt = s.recv_len THEN 1 ELSE 0

\* mutant: the completion check runs before the chunk is forwarded
WriteResult_DoneFirst(data, len, s) ==
    LET s1 == ForLoop(0, FrameDoneCheck(s), data, len)
    IN  [s1 EXCEPT !.ret = WriteReturn(s1)]

WriteResult(data, len, s) ==
    LET s1 == FrameDoneCheck(ForLoop(0, s, data, len))
    IN  [s1 EXCEPT !.ret = WriteReturn(s1)]

(***************************************************************************)
(* History kept beside the program: what the display interface saw.        *)
(***************************************************************************)
\* the bytes handed to send_byte among the callbacks cs, in order
SentBytes(cs) ==
    LET sb == SelectSeq(cs, LAMBDA c : c[1] = "send_byte")
    IN  [j \in 1..Len(sb) |-> sb[j][2]]

\* how many of the callbacks cs are op
Count(cs, op) == Len(SelectSeq(cs, LAMBDA c : c[1] = op))

\* whether a frame is open after the callbacks cs, o telling it before:
\* the last frame_start, frame_done or init among them decides
OpenAfter(o, cs) ==
    LET marks == SelectSeq(cs, LAMBDA c :
                     c[1] \in {"frame_start", "frame_done", "init"})
    IN  IF marks = <<>> THEN o
        ELSE marks[Len(marks)][1] = "frame_start"

(***************************************************************************)
(* A second run of the same firmware beside the first.  It is handed the   *)
(* same requests and chunks of the same lengths, but every payload byte it *)
(* gets is 0.  Two runs that differ only in payload values agree on what   *)
(* they do exactly if each of them agrees with this one.                   *)
(***************************************************************************)
\* the second run's record at the start of a callback
TwinProg == [twin EXCEPT !.calls = <<>>, !.ret = 0, !.lcd = Fresh(@)]

\* a chunk of n bytes of value 0
Blank(n) == [j \in 1..n |-> 0]

Commit(t) ==
    /\ state' = t.state
    /\ recv_len' = t.recv_len
    /\ recv_cnt' = t.recv_cnt
    /\ usbMsgPtr' = t.usbMsgPtr
    /\ display' = t.display
    /\ lcd' = t.lcd
    /\ ret' = t.ret
    /\ calls' = t.calls
    /\ open' = OpenAfter(open, t.calls)

(***************************************************************************)
(* Inputs.                                                                 *)
(***************************************************************************)
Request(b, v, i, l) == [bRequest |-> b, wValue |-> v, wIndex |-> i, wLength |-> l]

\* HELLO with a right or wrong magic pair, DATA with every length, and the
\* commands that read no parameter
Requests ==
    {Request(CMD_HELLO, v, i, 0) : v \in {HELLO_VALUE, 0}, i \in {HELLO_INDEX, 0}}
    \cup {Request(CMD_DATA, 0, 0, l) : l \in 0..MaxLen}
    \cup {Request(c, 0, 0, 0) : c \in {CMD_PROPS, CMD_RESET, CMD_BYE, CMD_UNKNOWN}}

RECURSIVE SeqsOfLen(_)
SeqsOfLen(n) ==
    IF n = 0 THEN {<<>>}
    ELSE {Append(q, b) : q \in SeqsOfLen(n - 1), b \in Bytes}

Fragments == UNION {SeqsOfLen(n) : n \in 0..MaxFrag}

\* a HELLO request that carries the magic pair 0x4d6f, 0x6921
ValidHello(rq) ==
    rq.bRequest = 85 /\ rq.wValue = 19823 /\ rq.wIndex = 26913

(***************************************************************************)
(* Actions.                                                                *)
(***************************************************************************)
Init ==
    /\ pc = "boot"
    /\ state = ST_IDLE
    /\ recv_len = 0
    /\ recv_cnt = 0
    /\ usbMsgPtr = "null"
    /\ display = [f \in Members |-> display_properties[f]]
    /\ lcd = [cs |-> 0, dc |-> 0, h |-> 0, x |-> 0, y |-> 0]
    /\ ret = 0
    /\ last = [fn |-> "none"]
    /\ calls = <<>>
    /\ session = FALSE
    /\ declared = -1
    /\ delivered = <<>>
    /\ sent = <<>>
    /\ dones = 0
    /\ frags = <<>>
    /\ abandoned = FALSE
    /\ open = FALSE
    /\ twin = Prog
    /\ quiet = FALSE
    /\ offered = 0

\* mutant: main() enters the poll loop without display.init()
main_NoInit ==
    /\ pc = "boot"
    /\ pc' = "poll"
    /\ Commit(Prog)
    /\ twin' = TwinProg
    /\ last' = [fn |-> "main"]
    /\ UNCHANGED <<session, declared, delivered, sent, dones, frags, abandoned,
                   quiet, offered>>

\* main(): display.init(), then the USB poll loop
main ==
    /\ pc = "boot"
    /\ pc' = "poll"
    /\ Commit(display_init(Prog))
    /\ twin' = display_init(TwinProg)
    /\ last' = [fn |-> "main"]
    /\ UNCHANGED <<session, declared, delivered, sent, dones, frags, abandoned,
                   quiet, offered>>

usbFunctionSetup(rq) ==
    /\ pc = "poll"
    /\ LET t == SetupResult(rq, Prog)
           accepted == rq.bRequest = CMD_DATA /\ state = ST_READY
       IN  /\ Commit(t)
           /\ twin' = SetupResult(rq, TwinProg)
           /\ last' = [fn |-> "usbFunctionSetup", rq |-> rq]
           /\ session' = IF ValidHello(rq) THEN TRUE
                         ELSE IF rq.bRequest = CMD_BYE THEN FALSE
                         ELSE session
           /\ declared' = IF accepted THEN rq.wLength ELSE declared
           /\ delivered' = IF accepted THEN <<>> ELSE delivered
           /\ sent' = IF accepted THEN <<>> ELSE sent
           /\ dones' = IF accepted THEN 0 ELSE dones + Count(t.calls, "frame_done")
           /\ frags' = IF accepted THEN <<>> ELSE frags
           /\ abandoned' = IF accepted THEN recv_cnt < recv_len ELSE abandoned
           /\ quiet' = accepted
           /\ offered' = IF accepted THEN 0 ELSE offered
    /\ UNCHANGED pc

\* one call of usbFunctionWrite with the chunk data, all but the two
\* byte-by-byte histories
WriteCore(data) ==
    /\ pc = "poll"
    /\ LET t == WriteResult(data, Len(data), Prog)
       IN  /\ Commit(t)
           /\ twin' = WriteResult(Blank(Len(data)), Len(data), TwinProg)
           /\ last' = [fn |-> "usbFunctionWrite", len |-> Len(data)]
           /\ dones' = dones + Count(t.calls, "frame_done")
           /\ frags' = Append(frags, Len(data))
           /\ offered' = offered + Len(data)
    /\ UNCHANGED <<pc, session, declared, abandoned, quiet>>

\* one call of usbFunctionWrite with the chunk data
WriteCall(data) ==
    /\ WriteCore(data)
    /\ delivered' = delivered \o data
    /\ sent' = sent \o SentBytes(calls')

\* the calls the model explores: a bounded number of chunks and of bytes
\* after each accepted CMD_DATA
usbFunctionWrite(data) ==
    /\ Len(frags) < MaxCalls
    /\ Len(delivered) + Len(data) <= MaxDelivered
    /\ WriteCall(data)

Next ==
    \/ main
    \/ \E rq \in Requests : usbFunctionSetup(rq)
    \/ \E data \in Fragments : usbFunctionWrite(data)

Spec == Init /\ [][Next]_vars

(***************************************************************************)
(* One host session on the Nokia 5110 build, start to end: HELLO, PROPS,   *)
(* one full frame of X_RES * (Y_RES / 8) bytes as CMD_DATA, which V-USB    *)
(* hands over in chunks of eight bytes, BYE, and a PROPS after it.  The    *)
(* host knows what it sent and what it was answered, so each step is       *)
(* guarded by the last callback.  The frame holds the bytes seed, seed + 1,*)
(* ... modulo 256.                                                         *)
(***************************************************************************)
\* V-USB passes the payload of a control transfer on in chunks of 8 bytes
ChunkLen == 8

ChunkCount == FrameBytes \div ChunkLen

\* the chunk that starts at byte off of the frame
ScenarioChunk(seed, off) ==
    [j \in 1..ChunkLen |-> (seed + off + j - 1) % UINT8]

HostHello ==
    /\ last.fn = "main"
    /\ usbFunctionSetup(Request(CMD_HELLO, HELLO_VALUE, HELLO_INDEX, 0))

HostProps ==
    /\ last.fn = "usbFunctionSetup"
    /\ last.rq.bRequest \in {CMD_HELLO, CMD_BYE}
    /\ usbFunctionSetup(Request(CMD_PROPS, 0, 0, 0))

HostData ==
    /\ last.fn = "usbFunctionSetup"
    /\ last.rq.bRequest = CMD_PROPS
    /\ session
    /\ usbFunctionSetup(Request(CMD_DATA, 0, 0, FrameBytes))

HostChunk ==
    /\ session
    /\ declared = FrameBytes
    /\ Len(frags) < ChunkCount
    /\ \E seed \in (IF delivered = <<>> THEN Bytes ELSE {delivered[1]}) :
          WriteCall(ScenarioChunk(seed, Len(delivered)))

HostBye ==
    /\ last.fn = "usbFunctionWrite"
    /\ Len(frags) = ChunkCount
    /\ usbFunctionSetup(Request(CMD_BYE, 0, 0, 0))

NextScenario ==
    \/ main
    \/ HostHello
    \/ HostProps
    \/ HostData
    \/ HostChunk
    \/ HostBye

SpecScenario == Init /\ [][NextScenario]_vars

(***************************************************************************)
(* Transfers at the ends of the counters' ranges.  wLength is a 16-bit     *)
(* field and the len of usbFunctionWrite a uchar, so the host declares     *)
(* lengths next to 0, 2^8 and 2^16 and hands over chunks of the longest    *)
(* length a uchar can tell; an empty chunk may open a transfer.  Chunks    *)
(* come until the firmware has called frame_done, also past the declared   *)
(* length.  Of the histories the counts are kept here, not the bytes.      *)
(***************************************************************************)
WideLengths == {0, 1, UINT8 - 1, UINT8, UINT8 + 1, UINT16 - 2, UINT16 - 1}

WideFrags == {0, UINT8 - 1}

\* a chunk of len bytes 0, 1, 2, ...
WideChunk(len) == [j \in 1..len |-> j - 1]

WideHello ==
    /\ last.fn = "main"
    /\ usbFunctionSetup(Request(CMD_HELLO, HELLO_VALUE, HELLO_INDEX, 0))

WideData ==
    /\ session
    /\ declared >= 0 => dones >= 1
    /\ \E l \in WideLengths : usbFunctionSetup(Request(CMD_DATA, 0, 0, l))

WideWrite ==
    /\ declared >= 0
    /\ dones = 0
    /\ \E len \in WideFrags :
          /\ len = 0 => frags = <<>>
          /\ WriteCore(WideChunk(len))
          /\ UNCHANGED <<delivered, sent>>

NextWide ==
    \/ main
    \/ WideHello
    \/ WideData
    \/ WideWrite

SpecWide == Init /\ [][NextWide]_vars

(***************************************************************************)
(* The SSD1306 build: the same main.c linked with the display struct of    *)
(* ssd1306.c.  The bus condition is the environment's and changes at any   *)
(* time between two callbacks.                                             *)
(***************************************************************************)
InitSsd1306 ==
    /\ pc = "boot"
    /\ state = ST_IDLE
    /\ recv_len = 0
    /\ recv_cnt = 0
    /\ usbMsgPtr = "null"
    /\ display = [f \in Members |-> ssd1306_properties[f]]
    /\ lcd \in {[fault |-> f, master |-> FALSE, issued |-> <<>>, wire |-> <<>>] :
                   f \in BOOLEAN}
    /\ ret = 0
    /\ last = [fn |-> "none"]
    /\ calls = <<>>
    /\ session = FALSE
    /\ declared = -1
    /\ delivered = <<>>
    /\ sent = <<>>
    /\ dones = 0
    /\ frags = <<>>
    /\ abandoned = FALSE
    /\ open = FALSE
    /\ twin = Prog
    /\ quiet = FALSE
    /\ offered = 0

\* the bus turns bad or good
TwiFault ==
    /\ pc = "poll"
    /\ lcd' = [lcd EXCEPT !.fault = ~@]
    /\ UNCHANGED <<pc, state, recv_len, recv_cnt, usbMsgPtr, display, ret, last,
                   calls, session, declared, delivered, sent, dones, frags,
                   abandoned, open, twin, quiet, offered>>

\* the requests that reach the display, and CMD_BYE
SsdRequests ==
    {Request(CMD_HELLO, HELLO_VALUE, HELLO_INDEX, 0)}
    \cup {Request(CMD_DATA, 0, 0, l) : l \in 0..MaxLen}
    \cup {Request(c, 0, 0, 0) : c \in {CMD_RESET, CMD_BYE}}

NextSsd1306 ==
    \/ main
    \/ \E rq \in SsdRequests : usbFunctionSetup(rq)
    \/ \E n \in 0..MaxFrag : usbFunctionWrite(WideChunk(n))
    \/ TwiFault

SpecSsd1306 == InitSsd1306 /\ [][NextSsd1306]_vars


(***************************************************************************)
(* Vocabulary of the properties.                                           *)
(***************************************************************************)
IsSetup(c) == last.fn = "usbFunctionSetup" /\ last.rq.bRequest = c

IsWrite == last.fn = "usbFunctionWrite"

Min(a, b) == IF a < b THEN a ELSE b

\* the last callback was a HELLO carrying the magic pair 0x4d6f, 0x6921
LastIsValidHello == last.fn = "usbFunctionSetup" /\ ValidHello(last.rq)

\* every chunk since the accepted CMD_DATA carried at least one byte
AllPositive(fs) == \A k \in 1..Len(fs) : fs[k] >= 1

\* a CMD_DATA was accepted and exactly wLength bytes followed, in chunks of
\* at least one byte
ExactDelivery ==
    /\ declared >= 0
    /\ Len(frags) >= 1
    /\ AllPositive(frags)
    /\ Len(delivered) = declared

\* the callbacks of one call are send_byte calls followed by one frame_done
SendsThenDone(cs) ==
    /\ Len(cs) >= 1
    /\ cs[Len(cs)] = <<"frame_done">>
    /\ \A k \in 1..(Len(cs) - 1) : cs[k][1] = "send_byte"

(***************************************************************************)
(* C1: a PROPS request is answered with the properties record if and only  *)
(* if a HELLO with the valid magic pair was accepted earlier and no BYE    *)
(* was processed since; otherwise the answer is empty.                     *)
(***************************************************************************)
C1_PropsIffSession ==
    IsSetup(CMD_PROPS) =>
        IF session
        THEN ret = SizeofProperties /\ usbMsgPtr = "properties"
        ELSE ret = 0

C1_Witness ==
    /\ IsSetup(CMD_PROPS)
    /\ session
    /\ ret = SizeofProperties
    /\ declared >= 0

C3_CountWithinLength == recv_cnt <= recv_len

C3_Witness ==
    /\ IsWrite
    /\ declared >= 1
    /\ Len(delivered) > declared
    /\ recv_cnt = recv_len

(***************************************************************************)
(* C4: frame_done is invoked at most once per accepted DATA: once the      *)
(* transfer is complete, further usbFunctionWrite calls invoke neither     *)
(* send_byte nor frame_done.                                               *)
(***************************************************************************)
C4_CompletionOnce ==
    /\ declared >= 0 => dones <= 1
    /\ (IsWrite /\ declared >= 0 /\ Len(delivered) - last.len >= declared
           /\ Len(frags) >= 2)
          => calls = <<>>

(***************************************************************************)
(* C5: an accepted DATA with wLength 0 invokes frame_start and then        *)
(* frame_done, and no send_byte, without any payload delivery.             *)
(***************************************************************************)
C5_DataZeroCompletes ==
    (IsSetup(CMD_DATA) /\ last.rq.wLength = 0 /\ session) =>
        calls = << <<"frame_start">>, <<"frame_done">> >>

(***************************************************************************)
(* C6: after an accepted DATA(length) with length > 0, while fewer than    *)
(* length bytes have been delivered, frame_done has not been invoked and   *)
(* every usbFunctionWrite call, also one with an empty chunk, returned 0   *)
(* (the transfer is not complete).                                         *)
(***************************************************************************)
C6_NoDoneWhileShort ==
    (declared > 0 /\ Len(delivered) < declared) =>
        /\ dones = 0
        /\ IsWrite => ret = 0 /\ Count(calls, "frame_done") = 0

C6_Witness ==
    /\ declared > 1
    /\ IsWrite
    /\ 0 < Len(delivered)
    /\ Len(delivered) < declared
    /\ \E k \in 1..Len(frags) : frags[k] = 0

(***************************************************************************)
(* C7: a chunk that carries more bytes than remain of the declared length  *)
(* has only its first recv_len - recv_cnt bytes passed to send_byte, in    *)
(* order; recv_cnt stops at recv_len and frame_done is invoked once in     *)
(* that call.                                                              *)
(***************************************************************************)
C7_SurplusDropped ==
    [][(last'.fn = "usbFunctionWrite" /\ last'.len > recv_len - recv_cnt) =>
          LET n == Len(delivered')
              chunk == SubSeq(delivered', n - last'.len + 1, n)
          IN  /\ SentBytes(calls') = SubSeq(chunk, 1, recv_len - recv_cnt)
              /\ recv_cnt' = recv_len
              /\ recv_len' = recv_len
              /\ Count(calls', "frame_done") = 1
              /\ calls'[Len(calls')] = <<"frame_done">>]_vars

C7_Witness ==
    /\ IsWrite
    /\ declared >= 1
    /\ Len(frags) >= 2
    /\ Len(delivered) > declared
    /\ Len(SentBytes(calls)) >= 1
    /\ Len(SentBytes(calls)) < last.len
    /\ dones = 1

(***************************************************************************)
(* C8: the arguments of send_byte over a transfer are, byte for byte and   *)
(* in order, the first wLength bytes of the concatenation of the chunks    *)
(* delivered since the DATA request (all of them while fewer than wLength  *)
(* were delivered).                                                        *)
(***************************************************************************)
C8_ForwardedVerbatim ==
    sent = SubSeq(delivered, 1, Min(IF declared >= 0 THEN declared ELSE 0,
                                    Len(delivered)))

C8_Witness ==
    /\ declared >= 1
    /\ Len(frags) >= 2
    /\ Len(sent) = declared
    /\ Len(delivered) > declared
    /\ delivered[declared] # delivered[declared + 1]

(***************************************************************************)
(* C9: a HELLO with wValue 0x4d6f and wIndex 0x6921 is accepted in every   *)
(* state: afterwards state is ST_READY and the reply is the banner         *)
(* "RUDY usbxbm 1.0" with length sizeof(banner) = 16.                      *)
(***************************************************************************)
C9_HelloAccepted ==
    LastIsValidHello =>
        /\ state = ST_READY
        /\ usbMsgPtr = "banner"
        /\ ret = SizeofBanner
        /\ ret = 16
        /\ banner = "RUDY usbxbm 1.0"

C9_Witness ==
    /\ LastIsValidHello
    /\ state = ST_READY
    /\ ret = 16
    /\ calls = <<>>
    /\ declared >= 0

(***************************************************************************)
(* C10: a valid HELLO received in ST_READY invokes display.init exactly    *)
(* once, and nothing else of the display, and then answers as in C9; a     *)
(* valid HELLO received in ST_IDLE invokes no display callback.            *)
(***************************************************************************)
C10_HelloReinit ==
    [][(last'.fn = "usbFunctionSetup" /\ ValidHello(last'.rq)) =>
          /\ calls' = IF state = ST_READY THEN << <<"init">> >> ELSE <<>>
          /\ state' = ST_READY
          /\ ret' = SizeofBanner]_vars

C10_Witness ==
    /\ LastIsValidHello
    /\ calls = << <<"init">> >>
    /\ state = ST_READY
    /\ ret = SizeofBanner

(***************************************************************************)
(* Vocabulary of the step properties: what a callback left alone.          *)
(***************************************************************************)
\* the step is a usbFunctionSetup call with request code c
SetupStep(c) == last'.fn = "usbFunctionSetup" /\ last'.rq.bRequest = c

\* recv_len and recv_cnt are as before the call
ProgressKept == recv_len' = recv_len /\ recv_cnt' = recv_cnt

\* no display callback ran and the panel's pins are as before the call
DisplayUntouched == calls' = <<>> /\ lcd' = lcd

\* the request changed nothing and was answered with an empty reply
SilentNoOp ==
    /\ state' = state
    /\ ProgressKept
    /\ DisplayUntouched
    /\ ret' = 0

\* the request codes that usbFunctionSetup has no case for
KnownCodes == {CMD_HELLO, CMD_PROPS, CMD_DATA, CMD_RESET, CMD_BYE}

UnknownCodes == (0..(UINT8 - 1)) \ KnownCodes

\* c with bit k inverted
FlipBit(c, k) == IF (c \div 2^k) % 2 = 1 THEN c - 2^k ELSE c + 2^k

\* the unknown codes nearest to a command code: one bit or one count away
\* from it, and the two ends of the range
NearCodes ==
    ({FlipBit(c, k) : c \in KnownCodes, k \in 0..7}
       \cup {c + 1 : c \in KnownCodes} \cup {c - 1 : c \in KnownCodes}
       \cup {0, UINT8 - 1}) \ KnownCodes

(***************************************************************************)
(* C11: a HELLO whose magic pair does not match (wValue wrong, wIndex      *)
(* wrong, or both) is rejected in ST_IDLE and in ST_READY: state, recv_len *)
(* and recv_cnt are unchanged, no display callback runs and the reply is   *)
(* empty.                                                                  *)
(***************************************************************************)
C11_WrongMagicRejected ==
    [][(SetupStep(CMD_HELLO) /\ ~ValidHello(last'.rq)) => SilentNoOp]_vars

C11_Witness ==
    /\ IsSetup(CMD_HELLO)
    /\ last.rq.wValue = 19823
    /\ last.rq.wIndex # 26913
    /\ state = ST_READY
    /\ ret = 0
    /\ recv_cnt >= 1
    /\ recv_cnt < recv_len

(***************************************************************************)
(* C12: a CMD_DATA received in ST_READY sets recv_len to wLength and       *)
(* recv_cnt to 0, invokes frame_start once and no other display callback,  *)
(* stays in ST_READY and returns USB_NO_MSG.                               *)
(***************************************************************************)
C12_DataAccepted ==
    [][(SetupStep(CMD_DATA) /\ state = ST_READY) =>
          /\ recv_len' = last'.rq.wLength
          /\ recv_cnt' = 0
          /\ calls' = << <<"frame_start">> >>
          /\ state' = ST_READY
          /\ ret' = USB_NO_MSG
          /\ usbMsgPtr' = usbMsgPtr]_vars

C12_Witness ==
    /\ IsSetup(CMD_DATA)
    /\ state = ST_READY
    /\ ret = USB_NO_MSG
    /\ recv_len = 2
    /\ recv_cnt = 0
    /\ abandoned

(***************************************************************************)
(* C13: a CMD_DATA received in ST_IDLE is a no-op: recv_len and recv_cnt   *)
(* are not modified, frame_start is not invoked, the state stays ST_IDLE   *)
(* and the reply is empty.                                                 *)
(***************************************************************************)
C13_DataInIdleIgnored ==
    [][(SetupStep(CMD_DATA) /\ state = ST_IDLE) =>
          SilentNoOp /\ state' = ST_IDLE]_vars

C13_Witness ==
    /\ IsSetup(CMD_DATA)
    /\ state = ST_IDLE
    /\ ret = 0
    /\ recv_cnt >= 1
    /\ recv_cnt < recv_len
    /\ last.rq.wLength # recv_len

(***************************************************************************)
(* C14: CMD_RESET in ST_READY invokes display.init exactly once and stays  *)
(* in ST_READY; in ST_IDLE it invokes no display callback and stays in     *)
(* ST_IDLE; the reply is empty in both.                                    *)
(***************************************************************************)
C14_Reset ==
    [][SetupStep(CMD_RESET) =>
          /\ state' = state
          /\ ret' = 0
          /\ IF state = ST_READY
             THEN calls' = << <<"init">> >>
             ELSE DisplayUntouched]_vars

C14_Witness ==
    /\ IsSetup(CMD_RESET)
    /\ state = ST_READY
    /\ calls = << <<"init">> >>
    /\ ret = 0
    /\ recv_cnt < recv_len

(***************************************************************************)
(* C15: CMD_BYE sets the state to ST_IDLE from any state, with or without  *)
(* a transfer in flight, returns an empty reply and invokes no display     *)
(* callback.                                                               *)
(***************************************************************************)
C15_Bye ==
    [][SetupStep(CMD_BYE) =>
          /\ state' = ST_IDLE
          /\ ret' = 0
          /\ DisplayUntouched]_vars

C15_Witness ==
    /\ IsSetup(CMD_BYE)
    /\ state = ST_IDLE
    /\ ret = 0
    /\ calls = <<>>
    /\ lcd.cs = 0
    /\ recv_cnt >= 1
    /\ recv_cnt < recv_len

(***************************************************************************)
(* C16: while no valid HELLO has been accepted since the last BYE, every   *)
(* PROPS, DATA and RESET request is answered with an empty reply and has   *)
(* no effect, whatever HELLOs with a wrong magic pair came in between.     *)
(***************************************************************************)
C16_ClosedUntilHello ==
    [][(~session
          /\ (SetupStep(CMD_PROPS) \/ SetupStep(CMD_DATA) \/ SetupStep(CMD_RESET)))
          => SilentNoOp /\ usbMsgPtr' = usbMsgPtr]_vars

\* declared >= 0 tells that a session existed, so that a BYE ended it
C16_Witness ==
    /\ ~session
    /\ declared >= 0
    /\ IsSetup(CMD_RESET)
    /\ ret = 0
    /\ calls = <<>>
    /\ recv_cnt < recv_len

(***************************************************************************)
(* C17: a request code other than 0x55, 0x10, 0x20, 0xf0 and 0xaa leaves   *)
(* state, recv_len and recv_cnt unchanged, invokes no display callback and *)
(* returns an empty reply, in every state.  The step that was taken is     *)
(* checked, and with it the handler's result on the same state for the     *)
(* unknown codes nearest to the command codes.                             *)
(***************************************************************************)
C17_UnknownIgnored ==
    [][(last'.fn = "usbFunctionSetup" /\ last'.rq.bRequest \in UnknownCodes) =>
          /\ SilentNoOp
          /\ \A c \in NearCodes :
                SetupResult([last'.rq EXCEPT !.bRequest = c], Prog) = Prog]_vars

C17_Witness ==
    /\ last.fn = "usbFunctionSetup"
    /\ last.rq.bRequest \in UnknownCodes
    /\ state = ST_READY
    /\ ret = 0
    /\ calls = <<>>
    /\ recv_cnt >= 1
    /\ recv_cnt < recv_len

C20_ReturnAsDocumented ==
    IsWrite => ret = (IF recv_cnt = recv_len THEN 0 ELSE 1)

(***************************************************************************)
(* The bytes a reply takes from the properties member: for each member in  *)
(* declaration order its offset, its size and its value.                   *)
(***************************************************************************)
PropertiesImage(d) ==
    [k \in 1..Len(display_properties.layout) |->
        <<OffsetOf(k), display_properties.layout[k][2],
          d[display_properties.layout[k][1]]>>]

(***************************************************************************)
(* C21: a PROPS request in ST_READY is answered with the 25 bytes of the   *)
(* properties record: res_x (2 bytes) at offset 0, res_y (2 bytes) at 2,   *)
(* color_bits (1 byte) at 4 and identifier (20 bytes) at 5, no padding.    *)
(* No command and no payload delivery changes the record, so every PROPS   *)
(* reply of a build carries the same values.                               *)
(***************************************************************************)
C21_PropertiesFixed ==
    /\ display = [res_x |-> 84, res_y |-> 48, color_bits |-> 1,
                  identifier |-> "Nokia 5110"]
    /\ (IsSetup(CMD_PROPS) /\ session) =>
          /\ usbMsgPtr = "properties"
          /\ ret = 25
          /\ PropertiesImage(display) =
                << <<0, 2, 84>>, <<2, 2, 48>>, <<4, 1, 1>>,
                   <<5, 20, "Nokia 5110">> >>
          /\ Len(display.identifier) < 20

C21_Witness ==
    /\ IsSetup(CMD_PROPS)
    /\ session
    /\ usbMsgPtr = "properties"
    /\ abandoned
    /\ dones >= 1
    /\ Len(sent) >= 1

(***************************************************************************)
(* C22: in the Nokia 5110 session HELLO(0x4d6f, 0x6921); PROPS; DATA(504)  *)
(* with 504 bytes in 63 chunks of 8; BYE; PROPS the replies and display    *)
(* calls are, in order: the banner "RUDY usbxbm 1.0"; the properties       *)
(* {84, 48, 1, "Nokia 5110"}; one frame_start, then 504 send_byte calls    *)
(* and one frame_done, the first 62 usbFunctionWrite calls returning 0 and *)
(* the 63rd returning 1; state ST_IDLE; an empty reply.                    *)
(***************************************************************************)
C22_NokiaSession ==
    /\ Count(calls, "frame_start") = (IF IsSetup(CMD_DATA) THEN 1 ELSE 0)
    /\ Count(calls, "init") = (IF last.fn = "main" THEN 1 ELSE 0)
    /\ LastIsValidHello =>
          /\ ret = 16
          /\ usbMsgPtr = "banner"
          /\ banner = "RUDY usbxbm 1.0"
          /\ calls = <<>>
    /\ (IsSetup(CMD_PROPS) /\ session) =>
          /\ ret = 25
          /\ usbMsgPtr = "properties"
          /\ display = [res_x |-> 84, res_y |-> 48, color_bits |-> 1,
                        identifier |-> "Nokia 5110"]
          /\ calls = <<>>
    /\ IsSetup(CMD_DATA) =>
          /\ ret = USB_NO_MSG
          /\ last.rq.wLength = 504
          /\ calls = << <<"frame_start">> >>
    /\ IsWrite =>
          /\ last.len = 8
          /\ Len(SentBytes(calls)) = 8
          /\ sent = delivered
          /\ Len(sent) = 8 * Len(frags)
          /\ Len(frags) <= 62 =>
                ret = 0 /\ dones = 0 /\ Count(calls, "frame_done") = 0
          /\ Len(frags) >= 63 =>
                /\ Len(frags) = 63
                /\ ret = 1
                /\ calls[9] = <<"frame_done">>
                /\ Len(calls) = 9
    /\ (IsSetup(CMD_BYE) \/ (IsSetup(CMD_PROPS) /\ ~session)) =>
          /\ state = ST_IDLE
          /\ ret = 0
          /\ calls = <<>>
          /\ Len(sent) = 504
          /\ dones = 1

C22_Witness ==
    /\ IsSetup(CMD_PROPS)
    /\ ~session
    /\ ret = 0
    /\ Len(frags) = 63
    /\ Len(sent) = 504
    /\ sent[504] = (sent[1] + 503) % UINT8

(***************************************************************************)
(* C23: at power-up state is ST_IDLE and recv_len and recv_cnt are 0; the  *)
(* first thing to run is main(), which invokes display.init once, and no   *)
(* callback handles a request or a chunk before that; while no HELLO with  *)
(* the magic pair has been accepted, state stays ST_IDLE.                  *)
(***************************************************************************)
C23_PowerUp ==
    [][/\ pc = "boot" =>
             /\ state = ST_IDLE /\ recv_len = 0 /\ recv_cnt = 0
             /\ last.fn = "none"
             /\ last'.fn = "main"
             /\ calls' = << <<"init">> >>
             /\ state' = ST_IDLE /\ recv_len' = 0 /\ recv_cnt' = 0
       /\ last'.fn \in {"usbFunctionSetup", "usbFunctionWrite"} =>
             /\ pc = "poll"
             /\ last.fn # "none"
       /\ pc = "poll" => last'.fn # "main"
       /\ (~session /\ ~(last'.fn = "usbFunctionSetup" /\ ValidHello(last'.rq)))
             => state' = ST_IDLE]_vars

C23_Witness ==
    /\ IsSetup(CMD_DATA)
    /\ ~session
    /\ declared = -1
    /\ state = ST_IDLE
    /\ recv_len = 0
    /\ lcd.cs = 1
    /\ calls = <<>>

(***************************************************************************)
(* C24: state is always ST_IDLE or ST_READY and only usbFunctionSetup      *)
(* writes it: it changes to ST_READY only in a HELLO with the magic pair   *)
(* and to ST_IDLE only in a BYE.  PROPS, DATA, RESET, unknown requests,    *)
(* rejected HELLOs and every usbFunctionWrite call leave it unchanged.     *)
(***************************************************************************)
C24_StateWrittenBySetup ==
    [][/\ state \in {ST_IDLE, ST_READY}
       /\ state' \in {ST_IDLE, ST_READY}
       /\ state' # state =>
             /\ last'.fn = "usbFunctionSetup"
             /\ \/ state' = ST_READY /\ ValidHello(last'.rq)
                \/ state' = ST_IDLE /\ last'.rq.bRequest = CMD_BYE
       /\ (last'.fn = "usbFunctionSetup"
             /\ ~ValidHello(last'.rq) /\ last'.rq.bRequest # CMD_BYE)
             => state' = state
       /\ last'.fn = "usbFunctionWrite" => state' = state]_vars

C24_Witness ==
    /\ IsWrite
    /\ state = ST_READY
    /\ ret = 1
    /\ dones = 1
    /\ Len(frags) = 2
    /\ Len(sent) = 2

(***************************************************************************)
(* C25: recv_len is written only by a CMD_DATA accepted in ST_READY, which *)
(* also sets recv_cnt to 0; apart from that recv_cnt only grows, in        *)
(* usbFunctionWrite, by at most the length of the chunk.  HELLO (also the  *)
(* one that re-initialises the display), PROPS, RESET, BYE and unknown     *)
(* requests leave both unchanged, also while a transfer is in flight.      *)
(***************************************************************************)
C25_ProgressWrittenByData ==
    [][/\ recv_len' # recv_len =>
             /\ SetupStep(CMD_DATA)
             /\ state = ST_READY
             /\ recv_len' = last'.rq.wLength
       /\ recv_cnt' # recv_cnt =>
             \/ SetupStep(CMD_DATA) /\ state = ST_READY /\ recv_cnt' = 0
             \/ /\ last'.fn = "usbFunctionWrite"
                /\ recv_cnt' > recv_cnt
                /\ recv_cnt' - recv_cnt <= last'.len
       /\ (last'.fn = "usbFunctionSetup"
             /\ ~(last'.rq.bRequest = CMD_DATA /\ state = ST_READY))
             => ProgressKept]_vars

C25_Witness ==
    /\ LastIsValidHello
    /\ calls = << <<"init">> >>
    /\ recv_cnt >= 1
    /\ recv_cnt < recv_len
    /\ lcd.cs = 1

(***************************************************************************)
(* Vocabulary of C26: when a request is served, and what it is answered.   *)
(***************************************************************************)
\* the precondition of a request in state st
Precondition(rq, st) ==
    CASE rq.bRequest = CMD_HELLO -> ValidHello(rq)
      [] rq.bRequest \in {CMD_PROPS, CMD_DATA, CMD_RESET} -> st = ST_READY
      [] rq.bRequest = CMD_BYE -> TRUE
      [] OTHER -> FALSE

\* the three replies that carry something
Outcomes == {SizeofBanner, SizeofProperties, USB_NO_MSG}

\* the reply to rq in state st: RESET and BYE act without a reply
ExpectedReply(rq, st) ==
    CASE ValidHello(rq) -> SizeofBanner
      [] rq.bRequest = CMD_PROPS /\ st = ST_READY -> SizeofProperties
      [] rq.bRequest = CMD_DATA /\ st = ST_READY -> USB_NO_MSG
      [] OTHER -> 0

\* the request rq with one parameter set to another value
ParamSweep(rq) ==
    {[rq EXCEPT !.wValue = v] : v \in {HELLO_VALUE, UINT16 - 1}}
    \cup {[rq EXCEPT !.wIndex = i] : i \in {HELLO_INDEX, UINT16 - 1}}
    \cup {[rq EXCEPT !.wLength = UINT16 - 1]}

\* t is the program record s with an empty reply
Untouched(t, s) ==
    /\ t.state = s.state
    /\ t.recv_len = s.recv_len
    /\ t.recv_cnt = s.recv_cnt
    /\ t.lcd = s.lcd
    /\ t.calls = <<>>
    /\ t.ret = 0

(***************************************************************************)
(* C26 as claimed: usbFunctionSetup returns the banner, the properties     *)
(* record or the bulk-write signal whenever the precondition of the        *)
(* request holds, and an empty reply, changing nothing, otherwise.         *)
(***************************************************************************)
C26_OutcomeIffPrecondition ==
    [][last'.fn = "usbFunctionSetup" =>
          IF Precondition(last'.rq, state)
          THEN ret' \in Outcomes
          ELSE SilentNoOp]_vars

(***************************************************************************)
(* C26, amended: usbFunctionSetup has no error code and no error state.    *)
(* For every request code, parameter value and state it returns the        *)
(* banner (HELLO with the magic pair), the properties record (PROPS in     *)
(* ST_READY) or the bulk-write signal (DATA in ST_READY), and an empty     *)
(* reply in every other case, which includes RESET in ST_READY and BYE:    *)
(* they act and answer nothing.  A request whose precondition does not     *)
(* hold leaves state, recv_len, recv_cnt and the display untouched.        *)
(***************************************************************************)
C26_NoErrorCode ==
    [][last'.fn = "usbFunctionSetup" =>
          /\ ret' \in Outcomes \cup {0}
          /\ ret' = ExpectedReply(last'.rq, state)
          /\ ret' = SizeofBanner => usbMsgPtr' = "banner"
          /\ ret' = SizeofProperties => usbMsgPtr' = "properties"
          /\ state' \in {ST_IDLE, ST_READY}
          /\ ~Precondition(last'.rq, state) => SilentNoOp
          /\ \A rq \in ParamSweep(last'.rq) :
                LET t == SetupResult(rq, Prog)
                IN  /\ t.ret = ExpectedReply(rq, state)
                    /\ ~Precondition(rq, state) => Untouched(t, Prog)]_vars

C26_Witness ==
    /\ IsSetup(CMD_RESET)
    /\ session
    /\ ret = 0
    /\ calls = << <<"init">> >>
    /\ dones = 1
    /\ Len(sent) >= 1

(***************************************************************************)
(* C27: nokia5110_frame_start is idempotent.  Whatever the panel was left  *)
(* in, and so also when a frame_start came before with no frame_done       *)
(* since, with or without data bytes in between, a CMD_DATA accepted in    *)
(* ST_READY leaves the panel selected (cs low), in data mode (dc high) and *)
(* with the write address at X = 0, Y = 0; data bytes and one more         *)
(* frame_start after it lead to the same state again.                      *)
(***************************************************************************)
C27_FrameStartIdempotent ==
    [][(SetupStep(CMD_DATA) /\ state = ST_READY) =>
          /\ lcd' = [cs |-> 0, dc |-> 1, h |-> 0, x |-> 0, y |-> 0]
          /\ lcd' = nokia5110_frame_start(nokia5110_frame_start(Prog)).lcd
          /\ \A data \in Fragments :
                nokia5110_frame_start(
                    spi_send_bytes([lcd |-> lcd'], data)).lcd = lcd']_vars

C27_Witness ==
    /\ IsSetup(CMD_DATA)
    /\ session
    /\ abandoned
    /\ lcd.cs = 0 /\ lcd.dc = 1
    /\ lcd.x = 0 /\ lcd.y = 0

(***************************************************************************)
(* Vocabulary of C28 and C29: op is only invoked with a frame open.        *)
(***************************************************************************)
\* every callback op among cs runs with a frame open, o telling whether one
\* is open before cs
RECURSIVE InFrame(_, _, _)
InFrame(o, cs, op) ==
    IF cs = <<>> THEN TRUE
    ELSE /\ Head(cs)[1] = op => o
         /\ InFrame(OpenAfter(o, <<Head(cs)>>), Tail(cs), op)

(***************************************************************************)
(* C28: every send_byte is invoked inside an open frame: a frame_start     *)
(* came before it, with no frame_done and no display.init in between.      *)
(***************************************************************************)
C28_SendInOpenFrame ==
    [][InFrame(open, calls', "send_byte")]_vars

(***************************************************************************)
(* C29: frame_done is invoked only when a frame_start occurred since the   *)
(* previous frame_done; a usbFunctionWrite call made before any CMD_DATA   *)
(* was accepted invokes no frame_done.                                     *)
(***************************************************************************)
C29_DoneClosesOpenFrame ==
    [][/\ InFrame(open, calls', "frame_done")
       /\ (last'.fn = "usbFunctionWrite" /\ declared = -1) =>
             Count(calls', "frame_done") = 0]_vars

(***************************************************************************)
(* C30: usbFunctionWrite invokes neither send_byte nor frame_done while    *)
(* state is ST_IDLE: after a BYE that arrived with the transfer            *)
(* incomplete, the chunks that follow are not forwarded.                   *)
(***************************************************************************)
C30_NoForwardInIdle ==
    (IsWrite /\ state = ST_IDLE) => calls = <<>>

(***************************************************************************)
(* Vocabulary of C31: the kinds of the display callbacks, arguments left   *)
(* out.                                                                    *)
(***************************************************************************)
Kinds(cs) == [k \in 1..Len(cs) |-> cs[k][1]]

(***************************************************************************)
(* C31: the payload never influences the control state.  After every step  *)
(* the run and the second run, which got the same requests and the same    *)
(* chunk lengths but other payload bytes, have the same state, recv_len    *)
(* and recv_cnt, the same reply and return value and the same sequence of  *)
(* display callback kinds; only the arguments of send_byte differ.         *)
(***************************************************************************)
C31_PayloadBlind ==
    /\ twin.state = state
    /\ twin.recv_len = recv_len
    /\ twin.recv_cnt = recv_cnt
    /\ twin.usbMsgPtr = usbMsgPtr
    /\ twin.ret = ret
    /\ Kinds(twin.calls) = Kinds(calls)
    /\ SentBytes(twin.calls) = Blank(Len(SentBytes(calls)))

C31_Witness ==
    /\ IsWrite
    /\ ret = 1
    /\ Len(frags) >= 2
    /\ Len(SentBytes(calls)) >= 1
    /\ SentBytes(calls) # SentBytes(twin.calls)
    /\ Len(delivered) > declared

(***************************************************************************)
(* C32: after a CMD_DATA accepted in ST_READY with wLength = length, when  *)
(* only chunks of one byte or more follow and no other request, the        *)
(* transfer is complete (recv_cnt = recv_len, frame_done invoked) after at *)
(* most length usbFunctionWrite calls; each call forwards at most len      *)
(* bytes and at most what was missing.                                     *)
(***************************************************************************)
C32_CompleteWithinLength ==
    /\ (declared >= 0 /\ quiet /\ AllPositive(frags) /\ Len(frags) >= declared)
          => (recv_cnt = recv_len /\ dones >= 1)
    /\ IsWrite =>
          /\ Len(SentBytes(calls)) <= last.len
          /\ recv_cnt <= recv_len

(***************************************************************************)
(* C33: the counters do not wrap.  For declared lengths up to 65535 and    *)
(* chunks up to 255 bytes, recv_cnt is the exact number of bytes taken     *)
(* (the smaller of the declared length and the bytes handed over), and     *)
(* each call forwards exactly the smaller of len and what was missing, as  *)
(* unbounded integers tell it.                                             *)
(***************************************************************************)
C33_CountersExact ==
    /\ declared >= 0 =>
          /\ recv_len = declared
          /\ recv_cnt = Min(declared, offered)
    /\ (declared >= 0 /\ IsWrite) =>
          LET before == Min(declared, offered - last.len)
          IN  /\ Len(SentBytes(calls)) = Min(last.len, declared - before)
              /\ ret = (IF offered >= declared THEN 1 ELSE 0)

\* the longest transfer is done with the longest chunk, counted exactly
C33_Witness ==
    /\ IsWrite
    /\ declared = UINT16 - 1
    /\ recv_cnt = UINT16 - 1
    /\ last.len = UINT8 - 1
    /\ Len(SentBytes(calls)) = UINT8 - 1
    /\ ret = 1
    /\ dones = 1

(***************************************************************************)
(* C34: bus failures in the SSD1306 backend are swallowed.  Whatever the   *)
(* START conditions of a callback end in, the callback hands twi_send_byte *)
(* the bytes it hands it when every START ends in TW_START, and state,     *)
(* recv_len, recv_cnt, the callbacks made, usbMsgPtr and the value         *)
(* returned to V-USB are those of that run.                                *)
(***************************************************************************)
\* the program record before the callback, on a bus where every START of
\* the callback ends in TW_START
GoodBus(s) == [s EXCEPT !.lcd.fault = FALSE, !.lcd.master = FALSE]

\* the step taken ends as the callback result t
AgreesWith(t) ==
    /\ state' = t.state
    /\ recv_len' = t.recv_len
    /\ recv_cnt' = t.recv_cnt
    /\ usbMsgPtr' = t.usbMsgPtr
    /\ ret' = t.ret
    /\ calls' = t.calls
    /\ lcd'.issued = t.lcd.issued

\* the chunk of the usbFunctionWrite call just made
LastChunk ==
    SubSeq(delivered', Len(delivered') - last'.len + 1, Len(delivered'))

C34_StartFailureSwallowed ==
    [][lcd'.fault = lcd.fault =>
         /\ last'.fn = "main" => AgreesWith(display_init(GoodBus(Prog)))
         /\ last'.fn = "usbFunctionSetup" =>
               AgreesWith(SetupResult(last'.rq, GoodBus(Prog)))
         /\ last'.fn = "usbFunctionWrite" =>
               AgreesWith(WriteResult(LastChunk, last'.len, GoodBus(Prog)))]_vars

\* an accepted CMD_DATA whose two STARTs failed: nothing went out on the
\* bus, the bytes of the frame start were issued all the same, and the
\* host is answered as ever
C34_Witness ==
    /\ last.fn = "usbFunctionSetup"
    /\ last.rq.bRequest = CMD_DATA
    /\ last.rq.wLength >= 1
    /\ calls = <<<<"frame_start">>>>
    /\ lcd.issued = <<0, 176, 33, 0, 127, 64>>
    /\ lcd.wire = <<>>
    /\ state = ST_READY
    /\ recv_len = last.rq.wLength
    /\ ret = USB_NO_MSG

=============================================================================
